---- MODULE Spec2Model ----
(***************************************************************************)
(* State-machine model of the pilot's concurrent coordination core:        *)
(*   - the communication manager                                           *)
(*     (pilot/eventservice/communicationmanager/communicationmanager.py)   *)
(*   - the data-movement pipeline (pilot/control/data.py)                  *)
(*   - the supervision of one transfer child (_call and _stage_out of      *)
(*     data.py) step by step, and set_pilot_state (pilot/util/auxiliary.py)*)
(* The components share no state but args.graceful_stop; each has its own  *)
(* specification (SpecCM, SpecPipe, SpecRunner, SpecPilotState) over its   *)
(* own variables, the others' staying put.  SpecLog applies prepare_log to *)
(* the working directories of its initial states.                         *)
(***************************************************************************)
EXTENDS Integers, Sequences, FiniteSets, TLC

VARIABLES
    \* ---- communication manager ----
    queues,       \* CommunicationManager.queues: queue name -> FIFO of requests
    stop_event,   \* CommunicationManager.stop_event
    req,          \* the CommunicationRequest objects, one per client call
    call,         \* each client call: its position in the public operation, its result
    mgr,          \* the dispatch thread: position in run(), has_req
    obs,          \* history of each request (what was done to it, how often)
    \* ---- data pipeline ----
    dataq,        \* the pipeline queues (queues.data_in, ...): name -> FIFO of jobs
    graceful_stop,\* args.graceful_stop
    job,          \* the job objects
    worker,       \* the three threads of control(): position, job held, locals
    \* ---- supervision of one child, pilot state ----
    runner,       \* one call of _call / _stage_out: position, breaker, exit_code, result
    process,      \* the child of that call: alive or not, its exit status, signals sent to it
    pilot,        \* PILOT_JOB_STATE, the state field of the job objects, the last call
    workdir       \* a job's working directory and the members prepare_log gave the tarball

cmVars == <<queues, stop_event, req, call, mgr, obs>>

pipeVars == <<dataq, graceful_stop, job, worker>>

utilVars == <<runner, process, pilot, workdir>>

vars == <<queues, stop_event, req, call, mgr, obs, dataq, graceful_stop, job, worker,
          runner, process, pilot, workdir>>

-----------------------------------------------------------------------------
(* Bounds *)

\* number of client calls (each creates at most one request)
MaxCalls == 2

Calls == 1..MaxCalls

\* number of jobs submitted to the pipeline
MaxJobs == 2

Jobs == 1..MaxJobs

-----------------------------------------------------------------------------
(* Communication manager: constants of the code *)

InboundQueues == {"request_get_jobs", "update_jobs", "request_get_events", "update_events"}

InFlightQueues == {"processing_get_jobs", "processing_update_jobs",
                   "processing_get_events", "processing_update_events"}

QueueNames == InboundQueues \cup InFlightQueues

\* the limit of an in-flight queue
ProcessingLimit == 1

\* queue_limits: <<>> is None (no limit), <<n>> is the limit n
queue_limits == [q \in QueueNames |-> IF q \in InFlightQueues THEN <<ProcessingLimit>> ELSE <<>>]

\* CommunicationRequest.RequestType
RequestType == {"request_jobs", "update_jobs", "request_events", "update_events"}

\* the public operations and, for each, the request type and the inbound queue
Operations == {"get_jobs", "update_jobs", "get_event_ranges", "update_events"}

OpRequestType(op) ==
    CASE op = "get_jobs" -> "request_jobs"
      [] op = "update_jobs" -> "update_jobs"
      [] op = "get_event_ranges" -> "request_events"
      [] op = "update_events" -> "update_events"

OpQueue(op) ==
    CASE op = "get_jobs" -> "request_get_jobs"
      [] op = "update_jobs" -> "update_jobs"
      [] op = "get_event_ranges" -> "request_get_events"
      [] op = "update_events" -> "update_events"

\* get_processor(): the entries in the order run() iterates over them
ProcessTypes == <<"request_get_jobs", "request_get_events", "update_jobs",
                  "update_events", "processing_get_jobs", "processing_get_events">>

NumEntries == Len(ProcessTypes)

\* processor[process_type]['next_queue']: <<>> is None
next_queue(process_type) ==
    CASE process_type = "request_get_jobs" -> <<"processing_get_jobs">>
      [] process_type = "request_get_events" -> <<"processing_get_events">>
      [] OTHER -> <<>>

\* a table whose every entry asks for the post_hook
post_hook_always(process_type) == TRUE

\* processor[process_type]['process_req_post_hook']
process_req_post_hook(process_type) ==
    process_type \notin {"request_get_jobs", "request_get_events"}

-----------------------------------------------------------------------------
(* Requests and responses *)

\* a response slot: <<>> is None, <<r>> holds the CommunicationResponse r
None == <<>>

\* the response run() attaches to a request it aborts
AbortResponse == [status |-> "None", content |-> "None", exception |-> "CommunicationFailure"]

\* what a plugin handler may return: status False (logical failure), status 0
\* (success) or status -1 with the exception the plugin caught
HandlerResponses(process_type) ==
    { [status |-> "False", content |-> "None", exception |-> "None"],
      [status |-> "0", content |-> process_type, exception |-> "None"],
      [status |-> "-1", content |-> "None", exception |-> "PluginError"] }

\* what a plugin pre-check may return as its status
PreCheckStatus == {"0", "-1"}

\* a request object before the call has built it
NoRequest == [request_type |-> "None", post_hook |-> FALSE, response |-> None, abort |-> FALSE]

\* CommunicationRequest.__init__: response None, abort False
CommunicationRequest(request_type, post_hook) ==
    [request_type |-> request_type, post_hook |-> post_hook, response |-> None, abort |-> FALSE]

NoHistory == [enqueued |-> FALSE,        \* put on its inbound queue
              before_stop |-> FALSE,     \* ... while the stop flag was not set
              pending_at_stop |-> FALSE, \* enqueued and without a response when stop() set the flag
              responses |-> 0,           \* number of assignments to req.response
              hooks |-> 0,               \* number of post_hook invocations
              hook_arg |-> None,         \* the response of the last invocation
              inflight_in |-> 0,         \* number of puts on an in-flight queue
              inflight_out |-> 0,        \* number of gets from an in-flight queue
              plugin_raised |-> FALSE]   \* the plugin raised while run() served the request

-----------------------------------------------------------------------------
(* Queue operations (queue.Queue) *)

QPut(q, x) == Append(q, x)

\* a get that leaves the item on the queue
QPeek(q) == q

QGet(q) == Tail(q)

QEmpty(q) == q = <<>>

QSize(q) == Len(q)

-----------------------------------------------------------------------------
(* Communication manager: initial state *)

\* a client call that has not been made: its position, the operation, what it
\* returned or raised, whether it was made without a job descriptor, and the
\* stop flag at its is_stop() test
NoCall == [pc |-> "idle", op |-> "None", ret |-> "None", nojob |-> FALSE, stopped |-> FALSE]

\* a stop flag that is never seen
never_stop == FALSE

InitCM ==
    /\ queues = [q \in QueueNames |-> <<>>]
    /\ stop_event = FALSE
    /\ req = [c \in Calls |-> NoRequest]
    /\ call = [c \in Calls |-> NoCall]
    /\ mgr = [pc |-> "run", idx |-> 1, has_req |-> FALSE,
              pre_check |-> "none", served |-> 0, res |-> None,
              drain_pass |-> FALSE]   \* the pass began with the stop flag set
    /\ obs = [c \in Calls |-> NoHistory]

-----------------------------------------------------------------------------
(* stop() / is_stop() *)

is_stop == stop_event

Stop ==
    /\ ~is_stop
    /\ stop_event' = TRUE
    /\ obs' = [c \in Calls |->
                  [obs[c] EXCEPT !.pending_at_stop = obs[c].enqueued /\ req[c].response = None]]
    /\ UNCHANGED <<queues, req, call, mgr>>
    /\ UNCHANGED <<pipeVars, utilVars>>

-----------------------------------------------------------------------------
(* The public operations: get_jobs, update_jobs, get_event_ranges,         *)
(* update_events.  A call c runs: the is_stop() test, the construction of  *)
(* the request, the put on the inbound queue, then (without post_hook)     *)
(* the polling of req.response.                                            *)

\* "if self.is_stop(): return None"
CallStopped(c, op, nojob) ==
    /\ call[c].pc = "idle"
    /\ is_stop
    /\ nojob => op = "get_event_ranges"
    /\ call' = [call EXCEPT ![c] = [pc |-> "returned", op |-> op, ret |-> "None",
                                    nojob |-> nojob, stopped |-> stop_event]]
    /\ UNCHANGED <<queues, stop_event, req, mgr, obs>>
    /\ UNCHANGED <<pipeVars, utilVars>>

\* get_event_ranges: "if not job: ... raise resp.exception"
CallNoJob(c) ==
    /\ call[c].pc = "idle"
    /\ ~is_stop
    /\ call' = [call EXCEPT ![c] = [pc |-> "raised", op |-> "get_event_ranges",
                                    ret |-> "CommunicationFailure",
                                    nojob |-> TRUE, stopped |-> stop_event]]
    /\ UNCHANGED <<queues, stop_event, req, mgr, obs>>
    /\ UNCHANGED <<pipeVars, utilVars>>

\* the stop flag was not set: req = CommunicationRequest(req_attrs)
CallCreate(c, op, post_hook) ==
    /\ call[c].pc = "idle"
    /\ ~is_stop
    /\ req' = [req EXCEPT ![c] = CommunicationRequest(OpRequestType(op), post_hook)]
    /\ call' = [call EXCEPT ![c] = [pc |-> "created", op |-> op, ret |-> "None",
                                    nojob |-> FALSE, stopped |-> stop_event]]
    /\ UNCHANGED <<queues, stop_event, mgr, obs>>
    /\ UNCHANGED <<pipeVars, utilVars>>

\* self.queues[...].put(req); "if req.post_hook: return None"
CallPut(c) ==
    /\ call[c].pc = "created"
    /\ queues' = [queues EXCEPT ![OpQueue(call[c].op)] = QPut(@, c)]
    /\ obs' = [obs EXCEPT ![c].enqueued = TRUE, ![c].before_stop = ~stop_event]
    /\ call' = [call EXCEPT ![c].pc = IF req[c].post_hook THEN "returned" ELSE "polling"]
    /\ UNCHANGED <<stop_event, req, mgr>>
    /\ UNCHANGED <<pipeVars, utilVars>>

\* a result that never raises
SyncResultNoRaise(response) ==
    IF response.status = "False" THEN [pc |-> "returned", ret |-> "None"]
    ELSE [pc |-> "returned", ret |-> response.content]

\* the result of a synchronous call once req.response is set
SyncResult(response) ==
    IF response.exception # "None" THEN [pc |-> "raised", ret |-> response.exception]
    ELSE IF response.status = "False" THEN [pc |-> "returned", ret |-> "None"]
    ELSE [pc |-> "returned", ret |-> response.content]

\* "while req.response is None: time.sleep(1)" and what follows it
CallPoll(c) ==
    /\ call[c].pc = "polling"
    /\ req[c].response # None
    /\ LET r == SyncResult(req[c].response[1])
       IN call' = [call EXCEPT ![c].pc = r.pc, ![c].ret = r.ret]
    /\ UNCHANGED <<queues, stop_event, req, mgr, obs>>
    /\ UNCHANGED <<pipeVars, utilVars>>

-----------------------------------------------------------------------------
(* run(): the dispatch loop.  mgr.idx is the entry of the processor table  *)
(* the for loop is at; NumEntries + 1 is the end of the pass.              *)

process_type == ProcessTypes[mgr.idx]

AtEntry == mgr.pc = "run" /\ mgr.idx \in 1..NumEntries

\* what the last step of run() did: the status its pre-check returned ("none":
\* no pre-check was called), the request it gave to the handler (0: none) and
\* the response the handler returned
Did(m, status, r, res) == [m EXCEPT !.pre_check = status, !.served = r, !.res = res]

NextEntry == Did([mgr EXCEPT !.idx = @ + 1], "none", 0, None)

\* a pre-check whose status is not looked at
pre_check_ignored(status) == TRUE

\* "if not pre_check_resp.status == 0: continue"
pre_check_ready(status) == status = "0"

\* can_process_request without the test of the next queue's limit
can_process_request_unlimited(ptype) == ~QEmpty(queues[ptype])

can_process_request(ptype) ==
    IF QEmpty(queues[ptype]) THEN FALSE
    ELSE IF next_queue(ptype) = <<>> \/ queue_limits[next_queue(ptype)[1]] = <<>> THEN TRUE
    ELSE IF QSize(queues[next_queue(ptype)[1]]) < queue_limits[next_queue(ptype)[1]][1] THEN TRUE
    ELSE FALSE

\* is_stop(): one iteration of "while not self.queues[process_type].empty()"
MgrAbort ==
    /\ AtEntry
    /\ is_stop
    /\ ~QEmpty(queues[process_type])
    /\ LET r == Head(queues[process_type])
       IN /\ queues' = [queues EXCEPT ![process_type] = QGet(@)]
          /\ req' = [req EXCEPT ![r].abort = TRUE, ![r].response = <<AbortResponse>>]
          /\ obs' = [obs EXCEPT ![r].responses = @ + 1,
                                ![r].inflight_out = IF process_type \in InFlightQueues
                                                    THEN @ + 1 ELSE @]
    /\ mgr' = Did(mgr, "none", 0, None)
    /\ UNCHANGED <<stop_event, call>>
    /\ UNCHANGED <<pipeVars, utilVars>>

\* is_stop(): the queue of the entry is empty, on to the next entry
MgrAbortDone ==
    /\ AtEntry
    /\ is_stop
    /\ QEmpty(queues[process_type])
    /\ mgr' = NextEntry
    /\ UNCHANGED <<queues, stop_event, req, call, obs>>
    /\ UNCHANGED <<pipeVars, utilVars>>

\* neither branch of "if self.is_stop(): ... elif self.can_process_request(...)"
MgrCannotProcess ==
    /\ AtEntry
    /\ ~is_stop
    /\ ~can_process_request(process_type)
    /\ mgr' = NextEntry
    /\ UNCHANGED <<queues, stop_event, req, call, obs>>
    /\ UNCHANGED <<pipeVars, utilVars>>

\* "if not pre_check_resp.status == 0: continue"
MgrPreCheckNotReady ==
    /\ AtEntry
    /\ ~is_stop
    /\ can_process_request(process_type)
    /\ \E status \in PreCheckStatus :
          /\ ~pre_check_ready(status)
          /\ mgr' = Did(NextEntry, status, 0, None)
    /\ UNCHANGED <<queues, stop_event, req, call, obs>>
    /\ UNCHANGED <<pipeVars, utilVars>>

\* a delivery that looks at the next queue only
IsTerminalByQueue(ptype, res) == next_queue(ptype) = <<>>

\* the response is attached to the request (it is not moved to a next queue)
IsTerminal(ptype, res) == res.status = "False" \/ next_queue(ptype) = <<>>

\* what run() does with the request r and the handler's response res
Dispatch(ptype, r, res) ==
    LET terminal == IsTerminal(ptype, res)
        hook == res.status # "False" /\ process_req_post_hook(ptype) /\ req[r].post_hook
        left == [queues EXCEPT ![ptype] = QGet(@)]
    IN /\ queues' = IF terminal THEN left
                    ELSE [left EXCEPT ![next_queue(ptype)[1]] = QPut(@, r)]
       /\ req' = IF terminal THEN [req EXCEPT ![r].response = <<res>>] ELSE req
       /\ obs' = [obs EXCEPT ![r].responses = IF terminal THEN @ + 1 ELSE @,
                             ![r].hooks = IF hook THEN @ + 1 ELSE @,
                             ![r].hook_arg = IF hook THEN <<res>> ELSE @,
                             ![r].inflight_in = IF terminal THEN @ ELSE @ + 1,
                             ![r].inflight_out = IF ptype \in InFlightQueues THEN @ + 1 ELSE @]

\* pre-check status 0: get the request, call the handler, deliver
MgrProcess ==
    /\ AtEntry
    /\ ~is_stop
    /\ can_process_request(process_type)
    /\ \E status \in PreCheckStatus, res \in HandlerResponses(process_type) :
          /\ pre_check_ready(status)
          /\ Dispatch(process_type, Head(queues[process_type]), res)
          /\ mgr' = Did([NextEntry EXCEPT !.has_req = TRUE], status,
                        Head(queues[process_type]), <<res>>)
    /\ UNCHANGED <<stop_event, call>>
    /\ UNCHANGED <<pipeVars, utilVars>>

\* the pre-check raises: nothing in run() catches it, the thread ends
MgrPreCheckRaises ==
    /\ AtEntry
    /\ ~is_stop
    /\ can_process_request(process_type)
    /\ mgr' = Did([mgr EXCEPT !.pc = "crashed"], "raised", 0, None)
    /\ obs' = [obs EXCEPT ![Head(queues[process_type])].plugin_raised = TRUE]
    /\ UNCHANGED <<queues, stop_event, req, call>>
    /\ UNCHANGED <<pipeVars, utilVars>>

\* the handler raises: the request was taken from its queue, the thread ends
MgrHandlerRaises ==
    /\ AtEntry
    /\ ~is_stop
    /\ can_process_request(process_type)
    /\ \E status \in PreCheckStatus :
          /\ pre_check_ready(status)
          /\ mgr' = Did([mgr EXCEPT !.pc = "crashed", !.has_req = TRUE], status,
                        Head(queues[process_type]), None)
    /\ queues' = [queues EXCEPT ![process_type] = QGet(@)]
    /\ obs' = [obs EXCEPT ![Head(queues[process_type])].inflight_out =
                              IF process_type \in InFlightQueues THEN @ + 1 ELSE @,
                          ![Head(queues[process_type])].plugin_raised = TRUE]
    /\ UNCHANGED <<stop_event, req, call>>
    /\ UNCHANGED <<pipeVars, utilVars>>

\* a loop that never breaks
break_never(has_req, stop) == FALSE

\* "if not has_req: if self.is_stop(): break"
break_at_end(has_req, stop) == ~has_req /\ stop

\* end of the pass: "if not has_req: if self.is_stop(): break"
MgrExit ==
    /\ mgr.pc = "run"
    /\ mgr.idx = NumEntries + 1
    /\ break_at_end(mgr.has_req, is_stop)
    /\ mgr' = Did([mgr EXCEPT !.pc = "finished"], "none", 0, None)
    /\ UNCHANGED <<queues, stop_event, req, call, obs>>
    /\ UNCHANGED <<pipeVars, utilVars>>

\* end of the pass: time.sleep(1), then the next pass with has_req = False
MgrNextPass ==
    /\ mgr.pc = "run"
    /\ mgr.idx = NumEntries + 1
    /\ ~break_at_end(mgr.has_req, is_stop)
    /\ mgr' = Did([mgr EXCEPT !.idx = 1, !.has_req = FALSE, !.drain_pass = is_stop],
                  "none", 0, None)
    /\ UNCHANGED <<queues, stop_event, req, call, obs>>
    /\ UNCHANGED <<pipeVars, utilVars>>

-----------------------------------------------------------------------------

NextCM ==
    \/ Stop
    \/ \E c \in Calls, op \in Operations, nojob \in BOOLEAN : CallStopped(c, op, nojob)
    \/ \E c \in Calls : CallNoJob(c)
    \/ \E c \in Calls, op \in Operations, post_hook \in BOOLEAN : CallCreate(c, op, post_hook)
    \/ \E c \in Calls : CallPut(c)
    \/ \E c \in Calls : CallPoll(c)
    \/ MgrAbort
    \/ MgrAbortDone
    \/ MgrCannotProcess
    \/ MgrPreCheckNotReady
    \/ MgrProcess
    \/ MgrPreCheckRaises
    \/ MgrHandlerRaises
    \/ MgrExit
    \/ MgrNextPass


-----------------------------------------------------------------------------
(* Data pipeline: strings.  A Python string is a sequence of characters.   *)

\* "s in t" for two strings: s occurs in t
StrIn(s, t) == \E i \in 0..(Len(t) - Len(s)) : SubSeq(t, i + 1, i + Len(s)) = s

\* t.split(c): the list of the pieces of t between the separators c
RECURSIVE split(_, _)
split(t, c) ==
    IF \A i \in 1..Len(t) : t[i] # c THEN <<t>>
    ELSE LET i == CHOOSE k \in 1..Len(t) : t[k] = c /\ \A m \in 1..(k - 1) : t[m] # c
         IN <<SubSeq(t, 1, i - 1)>> \o split(SubSeq(t, i + 1, Len(t)), c)

Range(f) == {f[i] : i \in DOMAIN f}

\* '%s:%s' % (scope, name)
ScopeName(scope, name) == scope \o <<":">> \o name

\* the orders in which a dict with the keys S may be iterated
Orders(S) == {o \in [1..Cardinality(S) -> S] : \A i, k \in 1..Cardinality(S) : o[i] = o[k] => i = k}

-----------------------------------------------------------------------------
(* Data pipeline: the jobs the producer may submit.  metaData, exitCode    *)
(* and transExitCode are optional keys of the job: <<>> is "not in job".   *)

OutA == [name |-> <<"a">>, file_guid |-> "GA", file_size |-> 42]

OutB == [name |-> <<"b">>, file_guid |-> "GB", file_size |-> 43]

OutC == [name |-> <<"c">>, file_guid |-> "GC", file_size |-> 44]

JobBase == [scopeOut |-> <<"s">>, scopeLog |-> <<"s">>, logFile |-> <<"l">>, logGUID |-> "GL",
            logBytes |-> 7, outFiles |-> <<"a">>, metaData |-> << <<OutA>> >>, stageout |-> "all",
            exitCode |-> <<>>, transExitCode |-> <<0>>]

JobConfigs == <<
    \* the job of the full stage-out scenario: one output, which the report names
    JobBase,
    \* the report names an output that job.outFiles does not list
    [JobBase EXCEPT !.metaData = << <<OutA, OutB>> >>, !.exitCode = <<0>>],
    \* job.outFiles holds the text scope:logfile; the payload failed
    [JobBase EXCEPT !.outFiles = <<"a", ",", "s", ":", "l">>, !.exitCode = <<1>>],
    \* no job report
    [JobBase EXCEPT !.metaData = <<>>, !.exitCode = <<0>>, !.transExitCode = <<>>],
    \* log-only stage-out asked for by the producer
    [JobBase EXCEPT !.outFiles = <<"a", ",", "s", ":", "l">>, !.metaData = <<>>,
                    !.stageout = "log", !.exitCode = <<0>>, !.transExitCode = <<1>>],
    \* three outputs, all listed and all named by the report
    [JobBase EXCEPT !.outFiles = <<"a", ",", "b", ",", "c">>,
                    !.metaData = << <<OutA, OutB, OutC>> >>],
    \* the payload ended with 0 and left no job report
    [JobBase EXCEPT !.metaData = <<>>] >>

NumConfigs == Len(JobConfigs)

PipeQueues == {"data_in", "data_out", "finished_data_in", "failed_data_in",
               "finished_data_out", "failed_data_out", "finished_jobs", "failed_jobs"}

Workers == {"copytool_in", "copytool_out", "queue_monitoring"}

\* a job the producer has not submitted yet
NoJob == [cfg |-> 0, state |-> "unknown", stageout |-> "all",
          pilotErrorCodes |-> <<>>, pilotErrorDiags |-> <<>>, fileinfodict |-> None,
          reported |-> "None",   \* the state last given to send_state
          path |-> <<>>,         \* the queues the job was put on, in order
          passes |-> 0,          \* number of stage-out passes over the job
          uploads |-> {},        \* the descriptors the last pass called _stage_out for
          tool_failed |-> FALSE,     \* a transfer of the last pass failed
          missing_summary |-> FALSE] \* a transfer of the last pass ended with 0, no summary file

Cfg(j) == JobConfigs[job[j].cfg]

\* errors.add_error_code(code): the error-code list and the error-message list
STAGEINFAILED == "stage_in_failed"

STAGEOUTFAILED == "stage_out_failed"

get_error_message(code) ==
    CASE code = STAGEINFAILED -> "Failed to stage-in file"
      [] code = STAGEOUTFAILED -> "Failed to stage-out file"

add_error_code(code) ==
    [pilotErrorCodes |-> <<code>>, pilotErrorDiags |-> <<get_error_message(code)>>]

\* send_state(job, args, state): reports the state, the job object is not written
send_state(jobrec, state) == [jobrec EXCEPT !.reported = state]

Idle == [pc |-> "loop", job |-> 0, failed |-> FALSE, fileinfodict |-> <<>>, ret |-> FALSE]

InitPipe ==
    /\ dataq = [q \in PipeQueues |-> <<>>]
    /\ graceful_stop = FALSE
    /\ job = [j \in Jobs |-> NoJob]
    /\ worker = [w \in Workers |-> Idle]

-----------------------------------------------------------------------------
(* _stage_out_all: the transfers of one pass                               *)

\* prepare_log(job, tarball_name): the descriptor of the log tarball
prepare_log(j) ==
    [scope |-> Cfg(j).scopeLog, name |-> Cfg(j).logFile, guid |-> Cfg(j).logGUID,
     bytes |-> Cfg(j).logBytes]

\* the key of the log descriptor in outputs
LogKey(j) == ScopeName(Cfg(j).scopeLog, Cfg(j).logFile)

\* the dict outputs of _stage_out_all: key -> descriptor
outputs(j) ==
    LET files == IF job[j].stageout = "log" \/ Cfg(j).metaData = <<>> THEN {}
                 ELSE Range(Cfg(j).metaData[1])
        byname == [n \in {f.name : f \in files} |->
                      LET f == CHOOSE g \in files : g.name = n
                      IN [scope |-> Cfg(j).scopeOut, name |-> f.name,
                          guid |-> f.file_guid, bytes |-> f.file_size]]
    IN [k \in DOMAIN byname \cup {LogKey(j)} |->
           IF k = LogKey(j) THEN prepare_log(j) ELSE byname[k]]

\* "if outfile not in job['outFiles']: continue"
Skipped(outfile, outFiles) == ~StrIn(outfile, outFiles)

\* what the transfer tool may do with one file: the child could not be spawned;
\* it uploaded the file, wrote rucio_upload.json and exited with 0; it exited
\* with 0 and wrote no summary; it exited with a non-zero code
ToolOutcomes == {"no_spawn", "exit0", "exit0_no_summary", "exit1"}

\* rucio_upload.json as the tool writes it after the upload of one file
Summary(outfile) ==
    [k \in {ScopeName(outfile.scope, outfile.name)} |->
        [pfn |-> <<"pfn">> \o k, adler32 |-> <<"adler32">> \o k]]

\* _stage_out(args, outfile, job): summary_file is rucio_upload.json in the work
\* directory (None: no such file).  Returns the summary (None on failure) and
\* the file as the call leaves it.
stage_out(outfile, tool, stop, summary_file) ==
    IF tool = "no_spawn" THEN [summary |-> None, summary_file |-> summary_file]
    ELSE IF stop THEN [summary |-> None, summary_file |-> summary_file]  \* exit_code is None
    ELSE LET written == IF tool = "exit0" THEN <<Summary(outfile)>> ELSE summary_file
         IN [summary |-> written, summary_file |-> written]

\* the transfer did not succeed: the child was not spawned, was stopped, ended
\* with a non-zero code, or ended with 0 and there is no rucio_upload.json
transfer_failed(tool, stop, summary_file) ==
    \/ tool \in {"no_spawn", "exit1"}
    \/ stop
    \/ tool = "exit0_no_summary" /\ summary_file = None

\* the child ended with 0 and there is no rucio_upload.json
summary_missing(tool, stop, summary_file) ==
    tool = "exit0_no_summary" /\ ~stop /\ summary_file = None

\* the loop "for outfile in outputs" of _stage_out_all, over the keys in the
\* order `order`; tool[k] is what the transfer tool does with outputs[k]
RECURSIVE transfer_loop(_, _, _, _, _, _)
transfer_loop(outs, outFiles, order, tool, stop, acc) ==
    IF order = <<>> \/ acc.raised THEN acc
    ELSE LET k == Head(order)
             rest == Tail(order)
         IN IF Skipped(k, outFiles)
            THEN transfer_loop(outs, outFiles, rest, tool, stop, acc)
            ELSE LET r == stage_out(outs[k], tool[k], stop, acc.summary_file)
                     key == ScopeName(outs[k].scope, outs[k].name)
                     seen == [acc EXCEPT !.summary_file = r.summary_file,
                                         !.uploads = @ \cup {k},
                                         !.tool_failed =
                                             @ \/ transfer_failed(tool[k], stop, acc.summary_file),
                                         !.missing_summary =
                                             @ \/ summary_missing(tool[k], stop, acc.summary_file)]
                 IN IF r.summary = None
                    THEN transfer_loop(outs, outFiles, rest, tool, stop,
                                       [seen EXCEPT !.failed = TRUE])
                    ELSE IF key \notin DOMAIN r.summary[1]
                    THEN [seen EXCEPT !.raised = TRUE]     \* KeyError
                    ELSE LET filedict == [guid |-> outs[k].guid, fsize |-> outs[k].bytes,
                                          adler32 |-> r.summary[1][key].adler32,
                                          surl |-> r.summary[1][key].pfn]
                         IN transfer_loop(outs, outFiles, rest, tool, stop,
                               [seen EXCEPT !.fileinfodict =
                                   [n \in DOMAIN @ \cup {outs[k].name} |->
                                       IF n = outs[k].name THEN filedict ELSE @[n]]])

\* the state of the pass before the first transfer
PassStart == [summary_file |-> None, fileinfodict |-> <<>>, failed |-> FALSE,
              raised |-> FALSE, uploads |-> {}, tool_failed |-> FALSE,
              missing_summary |-> FALSE]

\* the passes _stage_out_all may make over job j
Passes(j) ==
    LET outs == outputs(j)
        \* a skipped key leaves the pass as it is, wherever it comes in the order
        attempted == {k \in DOMAIN outs : ~Skipped(k, Cfg(j).outFiles)}
    IN { transfer_loop(outs, Cfg(j).outFiles, order, tool, graceful_stop, PassStart) :
           order \in Orders(attempted), tool \in [attempted -> ToolOutcomes] }

-----------------------------------------------------------------------------
(* Data pipeline: the environment *)

Put(q, j) == [dataq EXCEPT ![q] = QPut(@, j)]

GetPut(from, to, j) == [dataq EXCEPT ![from] = QGet(@), ![to] = QPut(@, j)]

\* the producer puts a new job on data_in
Submit(j, c) ==
    /\ job[j].cfg = 0
    /\ \A k \in Jobs : k < j => job[k].cfg # 0
    /\ job' = [job EXCEPT ![j] = [NoJob EXCEPT !.cfg = c, !.stageout = JobConfigs[c].stageout,
                                               !.path = <<"data_in">>]]
    /\ dataq' = Put("data_in", j)
    /\ UNCHANGED <<graceful_stop, worker>>
    /\ UNCHANGED <<cmVars, utilVars>>

\* the consumer of finished_data_in runs the payload and puts the job on data_out
Payload ==
    /\ ~QEmpty(dataq["finished_data_in"])
    /\ LET j == Head(dataq["finished_data_in"])
       IN /\ dataq' = GetPut("finished_data_in", "data_out", j)
          /\ job' = [job EXCEPT ![j].path = Append(@, "data_out")]
    /\ UNCHANGED <<graceful_stop, worker>>
    /\ UNCHANGED <<cmVars, utilVars>>

\* args.graceful_stop.set()
Cancel ==
    /\ ~graceful_stop
    /\ graceful_stop' = TRUE
    /\ UNCHANGED <<dataq, job, worker>>
    /\ UNCHANGED <<cmVars, utilVars>>

-----------------------------------------------------------------------------
(* copytool_in *)

At(w, pc) == worker[w].pc = pc

Holding(w, pc, j) == [worker[w] EXCEPT !.pc = pc, !.job = j]

\* _call(args, executable): True iff the child's exit code is 0; the code is
\* None when the child could not be spawned or was stopped
_call(tool, stop) ==
    IF tool = "no_spawn" THEN FALSE
    ELSE IF stop THEN FALSE
    ELSE tool \in {"exit0", "exit0_no_summary"}

\* _stage_in(args, job)
stage_in(tool, stop) == _call(tool, stop)

\* "while not args.graceful_stop.is_set()" ends the thread
InExit ==
    /\ At("copytool_in", "loop")
    /\ graceful_stop
    /\ worker' = [worker EXCEPT !["copytool_in"].pc = "done"]
    /\ UNCHANGED <<dataq, graceful_stop, job>>
    /\ UNCHANGED <<cmVars, utilVars>>

\* job = queues.data_in.get(block=True, timeout=1); send_state(job, args, 'running')
InGet ==
    /\ At("copytool_in", "loop")
    /\ ~graceful_stop
    /\ ~QEmpty(dataq["data_in"])
    /\ LET j == Head(dataq["data_in"])
       IN /\ dataq' = [dataq EXCEPT !["data_in"] = QGet(@)]
          /\ job' = [job EXCEPT ![j] = send_state(@, "running")]
          /\ worker' = [worker EXCEPT !["copytool_in"] = Holding("copytool_in", "stage_in", j)]
    /\ UNCHANGED graceful_stop
    /\ UNCHANGED <<cmVars, utilVars>>

\* a routing of copytool_in with the two queues exchanged
StageInQueueSwapped(ok) == IF ok THEN "failed_data_in" ELSE "finished_data_in"

\* the queue copytool_in puts the job on
StageInQueue(ok) == IF ok THEN "finished_data_in" ELSE "failed_data_in"

\* _stage_in returns True: queues.finished_data_in.put(job)
InStageInDone ==
    /\ At("copytool_in", "stage_in")
    /\ \E tool \in ToolOutcomes : stage_in(tool, graceful_stop)
    /\ LET j == worker["copytool_in"].job
       IN /\ dataq' = Put(StageInQueue(TRUE), j)
          /\ job' = [job EXCEPT ![j].path = Append(@, StageInQueue(TRUE))]
    /\ worker' = [worker EXCEPT !["copytool_in"] = Idle]
    /\ UNCHANGED graceful_stop
    /\ UNCHANGED <<cmVars, utilVars>>

\* _stage_in returns False: queues.failed_data_in.put(job)
InStageInFailed ==
    /\ At("copytool_in", "stage_in")
    /\ \E tool \in ToolOutcomes : ~stage_in(tool, graceful_stop)
    /\ LET j == worker["copytool_in"].job
       IN /\ dataq' = Put(StageInQueue(FALSE), j)
          /\ job' = [job EXCEPT ![j].path = Append(@, StageInQueue(FALSE))]
    /\ worker' = [worker EXCEPT !["copytool_in"].pc = "add_error_code"]
    /\ UNCHANGED graceful_stop
    /\ UNCHANGED <<cmVars, utilVars>>

\* job['pilotErrorCodes'], job['pilotErrorDiags'] = errors.add_error_code(errors.STAGEINFAILED)
InAddErrorCode ==
    /\ At("copytool_in", "add_error_code")
    /\ job' = [job EXCEPT ![worker["copytool_in"].job].pilotErrorCodes =
                              add_error_code(STAGEINFAILED).pilotErrorCodes,
                          ![worker["copytool_in"].job].pilotErrorDiags =
                              add_error_code(STAGEINFAILED).pilotErrorDiags]
    /\ worker' = [worker EXCEPT !["copytool_in"].pc = "set_failed"]
    /\ UNCHANGED <<dataq, graceful_stop>>
    /\ UNCHANGED <<cmVars, utilVars>>

\* job['state'] = "failed"
InSetFailed ==
    /\ At("copytool_in", "set_failed")
    /\ job' = [job EXCEPT ![worker["copytool_in"].job].state = "failed"]
    /\ worker' = [worker EXCEPT !["copytool_in"] = Idle]
    /\ UNCHANGED <<dataq, graceful_stop>>
    /\ UNCHANGED <<cmVars, utilVars>>

-----------------------------------------------------------------------------
(* _stage_out_all(job, args), run by copytool_out and by queue_monitoring *)

StageOutWorkers == {"copytool_out", "queue_monitoring"}

\* a pass that ends as a finished one whatever its transfers did
after_transfers_finished(failed) == "so_finished"

\* "if failed: ... return False else: job['fileinfodict'] = fileinfodict ..."
after_transfers(failed) == IF failed THEN "so_add_error_code" ELSE "so_finished"

\* the transfers of the pass, none of which raises
StageOutTransfers(w) ==
    /\ At(w, "stage_out")
    /\ \E p \in Passes(worker[w].job) :
          /\ ~p.raised
          /\ job' = [job EXCEPT ![worker[w].job].passes = @ + 1,
                                ![worker[w].job].uploads = p.uploads,
                                ![worker[w].job].tool_failed = p.tool_failed,
                                ![worker[w].job].missing_summary = p.missing_summary]
          /\ worker' = [worker EXCEPT ![w].pc = after_transfers(p.failed),
                                      ![w].failed = p.failed,
                                      ![w].fileinfodict = p.fileinfodict]
    /\ UNCHANGED <<dataq, graceful_stop>>
    /\ UNCHANGED <<cmVars, utilVars>>

\* the summary a transfer returns lacks the key scope:name: KeyError, which
\* nothing catches; the thread ends holding the job
StageOutRaises(w) ==
    /\ At(w, "stage_out")
    /\ \E p \in Passes(worker[w].job) :
          /\ p.raised
          /\ job' = [job EXCEPT ![worker[w].job].passes = @ + 1,
                                ![worker[w].job].uploads = p.uploads,
                                ![worker[w].job].tool_failed = p.tool_failed,
                                ![worker[w].job].missing_summary = p.missing_summary]
          /\ worker' = [worker EXCEPT ![w].pc = "raised"]
    /\ UNCHANGED <<dataq, graceful_stop>>
    /\ UNCHANGED <<cmVars, utilVars>>

\* failed: job['pilotErrorCodes'], job['pilotErrorDiags'] = errors.add_error_code(...)
StageOutAddErrorCode(w) ==
    /\ At(w, "so_add_error_code")
    /\ job' = [job EXCEPT ![worker[w].job].pilotErrorCodes =
                              add_error_code(STAGEOUTFAILED).pilotErrorCodes,
                          ![worker[w].job].pilotErrorDiags =
                              add_error_code(STAGEOUTFAILED).pilotErrorDiags]
    /\ worker' = [worker EXCEPT ![w].pc = "so_failed"]
    /\ UNCHANGED <<dataq, graceful_stop>>
    /\ UNCHANGED <<cmVars, utilVars>>

\* failed: job['state'] = "failed"; return False
StageOutFailed(w) ==
    /\ At(w, "so_failed")
    /\ job' = [job EXCEPT ![worker[w].job].state = "failed"]
    /\ worker' = [worker EXCEPT ![w].pc = "so_return", ![w].ret = FALSE]
    /\ UNCHANGED <<dataq, graceful_stop>>
    /\ UNCHANGED <<cmVars, utilVars>>

\* not failed: job['fileinfodict'] = fileinfodict; job['state'] = "finished"; return True
StageOutFinished(w) ==
    /\ At(w, "so_finished")
    /\ job' = [job EXCEPT ![worker[w].job].fileinfodict = <<worker[w].fileinfodict>>,
                          ![worker[w].job].state = "finished"]
    /\ worker' = [worker EXCEPT ![w].pc = "so_return", ![w].ret = TRUE]
    /\ UNCHANGED <<dataq, graceful_stop>>
    /\ UNCHANGED <<cmVars, utilVars>>

-----------------------------------------------------------------------------
(* copytool_out *)

OutExit ==
    /\ At("copytool_out", "loop")
    /\ graceful_stop
    /\ worker' = [worker EXCEPT !["copytool_out"].pc = "done"]
    /\ UNCHANGED <<dataq, graceful_stop, job>>
    /\ UNCHANGED <<cmVars, utilVars>>

\* job = queues.data_out.get(block=True, timeout=1)
OutGet ==
    /\ At("copytool_out", "loop")
    /\ ~graceful_stop
    /\ ~QEmpty(dataq["data_out"])
    /\ dataq' = [dataq EXCEPT !["data_out"] = QGet(@)]
    /\ worker' = [worker EXCEPT !["copytool_out"] =
                     Holding("copytool_out", "stage_out", Head(dataq["data_out"]))]
    /\ UNCHANGED <<graceful_stop, job>>
    /\ UNCHANGED <<cmVars, utilVars>>

\* a routing that puts a job whose stage-out failed back on data_out
OutQueueBack(ok) == IF ok THEN "finished_data_out" ELSE "data_out"

\* the queue copytool_out puts the job on
OutQueue(ok) == IF ok THEN "finished_data_out" ELSE "failed_data_out"

OutPut ==
    /\ At("copytool_out", "so_return")
    /\ LET j == worker["copytool_out"].job
           q == OutQueue(worker["copytool_out"].ret)
       IN /\ dataq' = Put(q, j)
          /\ job' = [job EXCEPT ![j].path = Append(@, q)]
    /\ worker' = [worker EXCEPT !["copytool_out"] = Idle]
    /\ UNCHANGED graceful_stop
    /\ UNCHANGED <<cmVars, utilVars>>

-----------------------------------------------------------------------------
(* queue_monitoring *)

\* a wait that never reports the signal
wait_never(stop) == FALSE

\* "args.graceful_stop.wait(1) or args.graceful_stop.is_set()"
wait_or_is_set(stop) == stop

\* "while not args.graceful_stop.is_set()" and "if args.graceful_stop.wait(1) ...: break"
MonExit ==
    /\ At("queue_monitoring", "loop")
    /\ graceful_stop \/ wait_or_is_set(graceful_stop)
    /\ worker' = [worker EXCEPT !["queue_monitoring"].pc = "done"]
    /\ UNCHANGED <<dataq, graceful_stop, job>>
    /\ UNCHANGED <<cmVars, utilVars>>

\* job = queues.failed_data_in.get(...); job['stageout'] = "log"
MonGetFailedDataIn ==
    /\ At("queue_monitoring", "loop")
    /\ ~wait_or_is_set(graceful_stop)
    /\ ~QEmpty(dataq["failed_data_in"])
    /\ LET j == Head(dataq["failed_data_in"])
       IN /\ dataq' = [dataq EXCEPT !["failed_data_in"] = QGet(@)]
          /\ job' = [job EXCEPT ![j].stageout = "log"]
          /\ worker' = [worker EXCEPT !["queue_monitoring"] =
                           Holding("queue_monitoring", "stage_out", j)]
    /\ UNCHANGED graceful_stop
    /\ UNCHANGED <<cmVars, utilVars>>

\* Queue.Empty on failed_data_in
MonNoFailedDataIn ==
    /\ At("queue_monitoring", "loop")
    /\ ~wait_or_is_set(graceful_stop)
    /\ QEmpty(dataq["failed_data_in"])
    /\ worker' = [worker EXCEPT !["queue_monitoring"].pc = "finished_data_out"]
    /\ UNCHANGED <<dataq, graceful_stop, job>>
    /\ UNCHANGED <<cmVars, utilVars>>

\* the routing of a job from failed_data_in with the two queues exchanged
FailedInQueueSwapped(ok) == IF ok THEN "failed_data_out" ELSE "failed_jobs"

\* a routing that takes a job whose log was uploaded for a finished one
FailedInQueueFinished(ok) == IF ok THEN "finished_jobs" ELSE "failed_data_out"

\* the queue the monitor puts a job from failed_data_in on
FailedInQueue(ok) == IF ok THEN "failed_jobs" ELSE "failed_data_out"

MonPutFailedDataIn ==
    /\ At("queue_monitoring", "so_return")
    /\ LET j == worker["queue_monitoring"].job
           q == FailedInQueue(worker["queue_monitoring"].ret)
       IN /\ dataq' = Put(q, j)
          /\ job' = [job EXCEPT ![j].path = Append(@, q)]
    /\ worker' = [worker EXCEPT !["queue_monitoring"] = [Idle EXCEPT !.pc = "finished_data_out"]]
    /\ UNCHANGED graceful_stop
    /\ UNCHANGED <<cmVars, utilVars>>

\* job = queues.finished_data_out.get(...)
MonGetFinishedDataOut ==
    /\ At("queue_monitoring", "finished_data_out")
    /\ ~QEmpty(dataq["finished_data_out"])
    /\ dataq' = [dataq EXCEPT !["finished_data_out"] = QGet(@)]
    /\ worker' = [worker EXCEPT !["queue_monitoring"] =
                     Holding("queue_monitoring", "exit_code", Head(dataq["finished_data_out"]))]
    /\ UNCHANGED <<graceful_stop, job>>
    /\ UNCHANGED <<cmVars, utilVars>>

MonNoFinishedDataOut ==
    /\ At("queue_monitoring", "finished_data_out")
    /\ QEmpty(dataq["finished_data_out"])
    /\ worker' = [worker EXCEPT !["queue_monitoring"].pc = "failed_data_out"]
    /\ UNCHANGED <<dataq, graceful_stop, job>>
    /\ UNCHANGED <<cmVars, utilVars>>

\* a routing that looks at transExitCode only
FinishedOutQueueTransOnly(c) ==
    IF c.transExitCode # <<>> /\ c.transExitCode[1] = 0 THEN "finished_jobs" ELSE "failed_jobs"

\* the queue the monitor puts a job from finished_data_out on
FinishedOutQueue(c) ==
    LET exit_code == IF c.exitCode # <<>> THEN c.exitCode[1] ELSE 0
    IN IF (c.transExitCode # <<>> /\ c.transExitCode[1] = 0) /\ exit_code = 0
       THEN "finished_jobs" ELSE "failed_jobs"

MonPutFinishedDataOut ==
    /\ At("queue_monitoring", "exit_code")
    /\ LET j == worker["queue_monitoring"].job
           q == FinishedOutQueue(Cfg(j))
       IN /\ dataq' = Put(q, j)
          /\ job' = [job EXCEPT ![j].path = Append(@, q)]
    /\ worker' = [worker EXCEPT !["queue_monitoring"] = [Idle EXCEPT !.pc = "failed_data_out"]]
    /\ UNCHANGED graceful_stop
    /\ UNCHANGED <<cmVars, utilVars>>

\* job = queues.failed_data_out.get(...)
MonGetFailedDataOut ==
    /\ At("queue_monitoring", "failed_data_out")
    /\ ~QEmpty(dataq["failed_data_out"])
    /\ dataq' = [dataq EXCEPT !["failed_data_out"] = QGet(@)]
    /\ worker' = [worker EXCEPT !["queue_monitoring"] =
                     Holding("queue_monitoring", "failed_jobs", Head(dataq["failed_data_out"]))]
    /\ UNCHANGED <<graceful_stop, job>>
    /\ UNCHANGED <<cmVars, utilVars>>

MonNoFailedDataOut ==
    /\ At("queue_monitoring", "failed_data_out")
    /\ QEmpty(dataq["failed_data_out"])
    /\ worker' = [worker EXCEPT !["queue_monitoring"] = Idle]
    /\ UNCHANGED <<dataq, graceful_stop, job>>
    /\ UNCHANGED <<cmVars, utilVars>>

\* queues.failed_jobs.put(job)
MonPutFailedDataOut ==
    /\ At("queue_monitoring", "failed_jobs")
    /\ LET j == worker["queue_monitoring"].job
       IN /\ dataq' = Put("failed_jobs", j)
          /\ job' = [job EXCEPT ![j].path = Append(@, "failed_jobs")]
    /\ worker' = [worker EXCEPT !["queue_monitoring"] = Idle]
    /\ UNCHANGED graceful_stop
    /\ UNCHANGED <<cmVars, utilVars>>

-----------------------------------------------------------------------------
(* Supervision of one transfer child: _call and _stage_out, step by step *)

\* the two functions that spawn and supervise a child
Runners == {"_call", "_stage_out"}

\* "for i in xrange(10)": the looks at graceful_stop between two polls
ChecksPerPoll == 10

SIGTERM == "SIGTERM"

SIGKILL == "SIGKILL"

\* the exit codes a child ends with by itself
ExitCodes == {0, 1}

\* an exit code that is not None
Some(code) == <<code>>

\* no child yet.  signalled: the child ended after SIGTERM was sent to it
NoProcess == [status |-> "none", returncode |-> None, sent |-> <<>>, signalled |-> FALSE]

\* no call yet; breaker and exit_code are the locals of the call
NoRunner ==
    [pc |-> "idle", fn |-> "none", i |-> 0, breaker |-> FALSE, exit_code |-> None,
     ret |-> "none"]

InitRunner ==
    /\ runner = NoRunner
    /\ process = NoProcess

\* os.kill(pid, sig): the signal is sent whether the child is alive or has
\* ended and is not yet waited for
send_signal(p, sig) == [p EXCEPT !.sent = Append(@, sig)]

no_signal(p) == p

\* process.terminate()
terminate(p) == send_signal(p, SIGTERM)

\* process.kill(): a child still alive ends, killed by signal 9
kill(p) ==
    LET q == send_signal(p, SIGKILL)
    IN IF p.status = "alive"
       THEN [q EXCEPT !.status = "exited", !.returncode = Some(-9)]
       ELSE q

\* process.poll(): the exit code of a child that has ended, else None
poll(p) == IF p.status = "exited" THEN p.returncode ELSE None

call_result_exited(exit_code) == IF exit_code # None THEN "True" ELSE "False"

\* "if exit_code == 0: return True else: return False"
call_result(exit_code) == IF exit_code = Some(0) THEN "True" ELSE "False"

\* the end of _stage_out: None without an exit code or without
\* rucio_upload.json in the work directory, else the content of that file
stage_out_result(exit_code, exists) ==
    IF exit_code = None THEN "None"
    ELSE IF ~exists THEN "None"
    ELSE "summary"

\* subprocess.Popen(...) succeeds; breaker = False, exit_code = None
RunnerPopen(fn) ==
    /\ runner.pc = "idle"
    /\ runner' = [NoRunner EXCEPT !.pc = "for", !.fn = fn]
    /\ process' = [NoProcess EXCEPT !.status = "alive"]
    /\ UNCHANGED <<cmVars, pipeVars, pilot, workdir>>

\* subprocess.Popen(...) raises: _call returns False, _stage_out returns None
RunnerPopenFails(fn) ==
    /\ runner.pc = "idle"
    /\ runner' = [NoRunner EXCEPT !.pc = "done", !.fn = fn,
                                  !.ret = IF fn = "_call" THEN "False" ELSE "None"]
    /\ UNCHANGED <<process, cmVars, pipeVars, pilot, workdir>>

\* one turn of "for i in xrange(10)": graceful_stop is set: breaker = True,
\* process.terminate(), break; else time.sleep(0.1)
RunnerCheck ==
    /\ runner.pc = "for"
    /\ IF graceful_stop
       THEN /\ runner' = [runner EXCEPT !.pc = "if_breaker", !.breaker = TRUE]
            /\ process' = terminate(process)
       ELSE /\ runner' = [runner EXCEPT
                            !.i = @ + 1,
                            !.pc = IF runner.i + 1 = ChecksPerPoll THEN "if_breaker"
                                   ELSE "for"]
            /\ UNCHANGED process
    /\ UNCHANGED <<cmVars, pipeVars, pilot, workdir>>

\* "if breaker: time.sleep(3); process.kill(); break"
RunnerKill ==
    /\ runner.pc = "if_breaker"
    /\ runner.breaker
    /\ process' = kill(process)
    /\ runner' = [runner EXCEPT !.pc = "communicate"]
    /\ UNCHANGED <<cmVars, pipeVars, pilot, workdir>>

\* "exit_code = process.poll()": break with an exit code, else the next ten
\* looks at graceful_stop
RunnerPoll ==
    /\ runner.pc = "if_breaker"
    /\ ~runner.breaker
    /\ runner' = [runner EXCEPT
                    !.exit_code = poll(process),
                    !.i = 0,
                    !.pc = IF poll(process) # None THEN "communicate" ELSE "for"]
    /\ UNCHANGED <<process, cmVars, pipeVars, pilot, workdir>>

\* process.communicate() returns when the child has ended; then the result.
\* exists: rucio_upload.json is in the work directory
RunnerReturn(exists) ==
    /\ runner.pc = "communicate"
    /\ process.status = "exited"
    /\ runner' = [runner EXCEPT
                    !.pc = "done",
                    !.ret = IF runner.fn = "_call" THEN call_result(runner.exit_code)
                            ELSE stage_out_result(runner.exit_code, exists)]
    /\ UNCHANGED <<process, cmVars, pipeVars, pilot, workdir>>

\* the child ends by itself with code c; once SIGTERM was sent to it, it can
\* also end killed by that signal
ChildExits(c) ==
    /\ process.status = "alive"
    /\ c \in ExitCodes \cup (IF process.sent # <<>> THEN {-15} ELSE {})
    /\ process' = [process EXCEPT !.status = "exited", !.returncode = Some(c),
                                  !.signalled = process.sent # <<>>]
    /\ UNCHANGED <<runner, cmVars, pipeVars, pilot, workdir>>

-----------------------------------------------------------------------------
(* set_pilot_state, get_pilot_state (pilot/util/auxiliary.py) *)

\* the values of the state field
PilotStates == {"unknown", "running", "finished", "failed"}

\* job=None
NoJobObject == 0

\* PILOT_JOB_STATE not set, the job objects with a first state, no call yet.
\* last: the arguments of the last call and the job's state before it
InitPilot ==
    pilot = [env |-> "unset",
             state |-> [j \in Jobs |-> "unknown"],
             last |-> [job |-> NoJobObject, state |-> "unknown", before |-> "unknown"]]

\* set_pilot_state(job, state)
set_pilot_state(p, j, state) ==
    LET q == [p EXCEPT !.env = state]
    IN IF j # NoJobObject /\ p.state[j] # "failed"
       THEN [q EXCEPT !.state[j] = state]
       ELSE q

\* get_pilot_state(job)
get_pilot_state(p, j) ==
    IF j # NoJobObject THEN p.state[j]
    ELSE IF p.env = "unset" THEN "unknown" ELSE p.env

\* a call of set_pilot_state
SetPilotState(j, state) ==
    /\ pilot' = [set_pilot_state(pilot, j, state) EXCEPT
                    !.last = [job |-> j, state |-> state,
                              before |-> get_pilot_state(pilot, j)]]
    /\ UNCHANGED <<runner, process, workdir, cmVars, pipeVars>>

-----------------------------------------------------------------------------
(* prepare_log: the members of the log tarball *)

\* the names a working directory may hold; a name is text, as job.outFiles is
Names == {<<"i">>, <<"a">>, <<"b">>, <<"geomDB">>, <<"sqlite200">>, <<"x">>, <<"y">>}

\* an empty working directory of a job with one input and one output.
\* names: the entries of the directory; exists: those for which os.path.exists
\* holds (an entry that is a link to nothing is listed and does not exist);
\* members: the names added to the tarball (None: prepare_log was not called)
NoWorkdir == [names |-> {}, exists |-> {}, inFiles |-> <<"i">>, outFiles |-> <<"a">>,
              logFile |-> <<"l">>, members |-> None]

\* the working directories prepare_log is applied to
Workdirs ==
    { w \in [names : SUBSET Names, exists : SUBSET Names, inFiles : {<<"i">>},
             outFiles : {<<"a">>, <<"a", ",", "b">>}, logFile : {<<"l">>},
             members : {None}] : w.exists \subseteq w.names }

InitWorkdir == workdir = NoWorkdir

\* job['inFiles'].split(',')
input_files(w) == Range(split(w.inFiles, ","))

\* job['outFiles'].split(',')
output_files(w) == Range(split(w.outFiles, ","))

no_exclude == {}

force_exclude == {<<"geomDB">>, <<"sqlite200">>}

\* os.listdir(job.workdir), evaluated after tarfile.open has created the tarball
listdir(w) == w.names \cup {w.logFile}

\* os.path.exists(os.path.join(job.workdir, _file))
path_exists(w, f) == f \in w.exists \/ f = w.logFile

\* the names given to log_tar.add
tar_members(w) ==
    { f \in ((listdir(w) \ input_files(w)) \ output_files(w)) \ force_exclude :
        path_exists(w, f) }

\* a call of prepare_log
PrepareLog ==
    /\ workdir.members = None
    /\ workdir' = [workdir EXCEPT !.members = <<tar_members(workdir)>>]
    /\ UNCHANGED <<runner, process, pilot, cmVars, pipeVars>>

-----------------------------------------------------------------------------
(* Specifications *)

Init == InitCM /\ InitPipe /\ InitRunner /\ InitPilot /\ InitWorkdir

\* the working directory is any of Workdirs
InitLog == InitCM /\ InitPipe /\ InitRunner /\ InitPilot /\ workdir \in Workdirs

NextPipe ==
    \/ \E j \in Jobs, c \in 1..NumConfigs : Submit(j, c)
    \/ Payload
    \/ InGet
    \/ InStageInDone
    \/ InStageInFailed
    \/ InAddErrorCode
    \/ InSetFailed
    \/ \E w \in StageOutWorkers : StageOutTransfers(w)
    \/ \E w \in StageOutWorkers : StageOutRaises(w)
    \/ \E w \in StageOutWorkers : StageOutAddErrorCode(w)
    \/ \E w \in StageOutWorkers : StageOutFailed(w)
    \/ \E w \in StageOutWorkers : StageOutFinished(w)
    \/ OutGet
    \/ OutPut
    \/ MonGetFailedDataIn
    \/ MonNoFailedDataIn
    \/ MonPutFailedDataIn
    \/ MonGetFinishedDataOut
    \/ MonNoFinishedDataOut
    \/ MonPutFinishedDataOut
    \/ MonGetFailedDataOut
    \/ MonNoFailedDataOut
    \/ MonPutFailedDataOut
    \/ Cancel
    \/ InExit
    \/ OutExit
    \/ MonExit

Next == NextCM \/ NextPipe

SpecCM == Init /\ [][NextCM]_vars

SpecPipe == Init /\ [][NextPipe]_vars

\* the steps of run() in which every call of the plugin returns
MgrSteps ==
    \/ MgrAbort \/ MgrAbortDone \/ MgrCannotProcess \/ MgrPreCheckNotReady
    \/ MgrProcess \/ MgrExit \/ MgrNextPass

\* the manager with its thread scheduled: run() takes its next step when it
\* has one.  Nothing obliges a caller to go on or stop() to be called.
SpecCMFair == Init /\ [][NextCM]_vars /\ WF_vars(MgrSteps)

NextRunner ==
    \/ \E fn \in Runners : RunnerPopen(fn)
    \/ \E fn \in Runners : RunnerPopenFails(fn)
    \/ RunnerCheck
    \/ RunnerKill
    \/ RunnerPoll
    \/ \E exists \in BOOLEAN : RunnerReturn(exists)
    \/ \E c \in ExitCodes \cup {-15} : ChildExits(c)
    \/ Cancel

NextPilotState == \E j \in Jobs \cup {NoJobObject}, state \in PilotStates : SetPilotState(j, state)

SpecRunner == Init /\ [][NextRunner]_vars

SpecPilotState == Init /\ [][NextPilotState]_vars

NextLog == PrepareLog

SpecLog == InitLog /\ [][NextLog]_vars

Spec == Init /\ [][Next \/ NextRunner \/ NextPilotState \/ NextLog]_vars

\* the steps of each thread of the pipeline
InSteps == InGet \/ InStageInDone \/ InStageInFailed \/ InAddErrorCode \/ InSetFailed

StageOutSteps(w) ==
    \/ StageOutTransfers(w)
    \/ StageOutRaises(w)
    \/ StageOutAddErrorCode(w)
    \/ StageOutFailed(w)
    \/ StageOutFinished(w)

OutSteps == OutGet \/ StageOutSteps("copytool_out") \/ OutPut

MonSteps ==
    \/ MonGetFailedDataIn \/ MonNoFailedDataIn \/ StageOutSteps("queue_monitoring")
    \/ MonPutFailedDataIn \/ MonGetFinishedDataOut \/ MonNoFinishedDataOut
    \/ MonPutFinishedDataOut \/ MonGetFailedDataOut \/ MonNoFailedDataOut
    \/ MonPutFailedDataOut

\* the pipeline with the stage-in thread and the monitor thread scheduled: each
\* eventually takes a step when it can (its transfer tool terminates, its
\* timed get returns).  Nothing obliges the run to be cancelled.
SpecPipeFair ==
    /\ Init
    /\ [][NextPipe]_vars
    /\ WF_vars(InSteps)
    /\ WF_vars(MonSteps)

-----------------------------------------------------------------------------
(* Claims about the communication manager (checked under SpecCM) *)

Polling(c) == call[c].pc = "polling" /\ req[c].response = None

\* C1: a synchronous client call returns once the manager has been stopped.
\* After the dispatch loop has exited nothing assigns a response any more, so
\* the claim needs: when run() has exited through its break, no synchronous
\* caller is polling a request whose response is not set.
C1_SyncCallerReleased ==
    mgr.pc = "finished" => \A c \in Calls : ~Polling(c)

\* C2: the response of every enqueued request is assigned exactly once: never
\* twice, and once by the time the dispatch loop has exited.
C2_ResponseExactlyOnce ==
    \A c \in Calls :
        obs[c].enqueued =>
            /\ obs[c].responses <= 1
            /\ mgr.pc = "finished" => obs[c].responses = 1

\* C3: the dispatch loop does not exit while a request enqueued before the
\* cancellation is without a response: each request that was waiting when
\* stop() was called has abort = true and the communication_failure response
\* when run() has exited.
C3_ExitOnlyAfterDrain ==
    mgr.pc = "finished" =>
        \A c \in Calls :
            obs[c].pending_at_stop => req[c].abort /\ req[c].response = <<AbortResponse>>

\* C4: processing_get_jobs and processing_get_events each hold at most 1 request.
C4_InFlightAtMostOne ==
    /\ QSize(queues["processing_get_jobs"]) <= ProcessingLimit
    /\ QSize(queues["processing_get_events"]) <= ProcessingLimit

\* C4 witness: a request waits on request_get_jobs behind the one in flight
C4_Witness ==
    /\ ~is_stop
    /\ QSize(queues["processing_get_jobs"]) = ProcessingLimit
    /\ ~QEmpty(queues["request_get_jobs"])
    /\ mgr.pc = "run" /\ mgr.idx = 2

-----------------------------------------------------------------------------
(* Claims about the data pipeline (checked under SpecPipe and SpecPipeFair) *)

\* the number of places job j takes in the eight pipeline queues
Occurrences(j) ==
    Cardinality({qi \in PipeQueues \X (1..MaxJobs + 1) :
                    qi[2] \in DOMAIN dataq[qi[1]] /\ dataq[qi[1]][qi[2]] = j})

InQueue(j, q) == \E i \in DOMAIN dataq[q] : dataq[q][i] = j

Visited(j, q) == \E i \in DOMAIN job[j].path : job[j].path[i] = q

\* C5: each job is in at most one of the eight pipeline queues, at most once.
C5_AtMostOneQueue == \A j \in Jobs : Occurrences(j) <= 1

\* C5 witness: one job went data_in, finished_data_in, data_out,
\* finished_data_out, finished_jobs; another failed stage-in and the upload of
\* its log and went failed_data_in, failed_data_out, failed_jobs
C5_Witness ==
    \E j, k \in Jobs :
        /\ InQueue(j, "finished_jobs") /\ Visited(j, "finished_data_out")
        /\ InQueue(k, "failed_jobs") /\ Visited(k, "failed_data_in")
        /\ Visited(k, "failed_data_out")

\* job j was submitted, is on no queue, and the only thread that holds it has
\* ended on an exception: nothing will put it on a queue again
Lost(j) ==
    /\ job[j].cfg # 0
    /\ Occurrences(j) = 0
    /\ \A w \in Workers : worker[w].job = j => worker[w].pc = "raised"

\* C6: every job enqueued on data_in eventually appears in exactly one of
\* finished_jobs and failed_jobs.  A job that is to appear there is never lost
\* on the way: at every instant it is on a queue or held by a running thread.
C6_EveryJobReachesTerminalQueue == \A j \in Jobs : ~Lost(j)

\* C7: once the state of a job is finished or failed, no step changes it.
C7_StateMonotonic ==
    [][\A j \in Jobs : job[j].state \in {"finished", "failed"} => job'[j].state = job[j].state]_vars

\* worker w holds job j and has a write to it ahead
Writer(w, j) ==
    /\ worker[w].job = j
    /\ \/ w = "copytool_in" /\ worker[w].pc \in {"add_error_code", "set_failed"}
       \/ w \in StageOutWorkers
          /\ worker[w].pc \in {"stage_out", "so_add_error_code", "so_failed", "so_finished"}

\* C8: a worker writes a job only between dequeueing it and putting it on
\* another queue, and no two workers write the same job at the same time.
C8_NoConcurrentMutation ==
    \A j \in Jobs :
        /\ \A w \in Workers : Writer(w, j) => Occurrences(j) = 0
        /\ \A w1, w2 \in Workers : Writer(w1, j) /\ Writer(w2, j) => w1 = w2

\* C9: every job on failed_data_in has state failed and an error-code list
\* that contains stage_in_failed.
C9_FailedDataInTagged ==
    \A j \in Jobs :
        InQueue(j, "failed_data_in") =>
            /\ job[j].state = "failed"
            /\ STAGEINFAILED \in Range(job[j].pilotErrorCodes)

\* the stage-out pass over job j went through its loop (no transfer raised)
PassDone(j) ==
    /\ job[j].passes > 0
    /\ \A w \in StageOutWorkers : ~(worker[w].job = j /\ worker[w].pc \in {"stage_out", "raised"})

\* the names job.outFiles lists
Listed(j) == Range(split(Cfg(j).outFiles, ","))

\* C10: every stage-out pass calls the upload runner for the log tarball
\* descriptor, and skips only output descriptors whose name job.outFiles does
\* not list.
C10_LogAlwaysUploaded ==
    \A j \in Jobs :
        PassDone(j) =>
            /\ LogKey(j) \in job[j].uploads
            /\ \A k \in DOMAIN outputs(j) \ job[j].uploads :
                  k # LogKey(j) /\ outputs(j)[k].name \notin Listed(j)

-----------------------------------------------------------------------------
(* Claims about the stage-out pass and the routing of the queue monitor    *)
(* (checked under SpecPipe)                                                *)

\* the entry of job.fileinfodict the summary of a successful upload gives
FileInfo(outfile) ==
    LET key == ScopeName(outfile.scope, outfile.name)
    IN [guid |-> outfile.guid, fsize |-> outfile.bytes,
        adler32 |-> Summary(outfile)[key].adler32, surl |-> Summary(outfile)[key].pfn]

\* C11: after a stage-out pass in which every upload succeeded, job.fileinfodict
\* has an entry for every output file and for the log file, each one made of
\* the descriptor's guid and bytes and of the adler32 and pfn of the summary.
C11_FileInfoComplete ==
    \A j \in Jobs :
        (job[j].fileinfodict # None /\ job[j].uploads # {} /\ ~job[j].tool_failed) =>
            \A k \in DOMAIN outputs(j) :
                /\ outputs(j)[k].name \in DOMAIN job[j].fileinfodict[1]
                /\ job[j].fileinfodict[1][outputs(j)[k].name] = FileInfo(outputs(j)[k])

\* worker w has come to the end of a stage-out pass over job j
PassEnded(w, j) == worker[w].job = j /\ worker[w].pc \in {"so_return", "raised"}

\* the descriptors of job j that job.outFiles does not rule out
Attempted(j) == {k \in DOMAIN outputs(j) : ~Skipped(k, Cfg(j).outFiles)}

\* C12: _stage_out_all returns failure, with the job failed and tagged
\* stage_out_failed, if and only if a transfer of the pass failed; otherwise it
\* returns success with the job finished.  A failed transfer does not stop the
\* pass: every remaining descriptor is attempted.
C12_FailureIffTransferFailed ==
    \A w \in StageOutWorkers, j \in Jobs :
        PassEnded(w, j) =>
            /\ worker[w].pc = "so_return"
            /\ job[j].uploads = Attempted(j)
            /\ worker[w].ret = ~job[j].tool_failed
            /\ job[j].tool_failed =>
                   /\ job[j].state = "failed"
                   /\ STAGEOUTFAILED \in Range(job[j].pilotErrorCodes)
            /\ ~job[j].tool_failed => job[j].state = "finished"

\* the monitor has routed job j, which it took from queue q
Routed(j, q) ==
    /\ Visited(j, q)
    /\ ~InQueue(j, q)
    /\ worker["queue_monitoring"].job # j

\* the payload exit code of job j, 0 when the job has none
PayloadExitCode(j) == IF Cfg(j).exitCode = <<>> THEN 0 ELSE Cfg(j).exitCode[1]

\* C13: the monitor routes a job from finished_data_out to finished_jobs if
\* and only if its exitCode (0 when absent) is 0 and its transExitCode is 0,
\* and to failed_jobs otherwise.
C13_RoutedByExitCodes ==
    \A j \in Jobs :
        Routed(j, "finished_data_out") =>
            IF PayloadExitCode(j) = 0 /\ Cfg(j).transExitCode = <<0>>
            THEN InQueue(j, "finished_jobs") /\ ~InQueue(j, "failed_jobs")
            ELSE InQueue(j, "failed_jobs") /\ ~InQueue(j, "finished_jobs")

\* C13 witness: a job with exitCode = 1 and a clean stage-out is on failed_jobs,
\* another one with exit codes 0 is on finished_jobs
C13_Witness ==
    \E j, k \in Jobs :
        /\ Routed(j, "finished_data_out") /\ Cfg(j).exitCode = <<1>>
        /\ Cfg(j).transExitCode = <<0>> /\ job[j].state = "finished"
        /\ InQueue(j, "failed_jobs")
        /\ Routed(k, "finished_data_out") /\ InQueue(k, "finished_jobs")

\* the queue job j was put on after queue q
QueueAfter(j, q) ==
    LET i == CHOOSE k \in DOMAIN job[j].path : job[j].path[k] = q
    IN IF i < Len(job[j].path) THEN job[j].path[i + 1] ELSE "None"

\* C14: for a job from failed_data_in the monitor sets stageout = log and runs
\* the stage-out driver, which attempts nothing but the log; the job goes to
\* failed_data_out if the upload of the log failed and to failed_jobs otherwise.
C14_FailedDataInRouted ==
    \A j \in Jobs :
        Routed(j, "failed_data_in") =>
            /\ job[j].stageout = "log"
            /\ job[j].passes = 1
            /\ job[j].uploads \subseteq {LogKey(j)}
            /\ QueueAfter(j, "failed_data_in") =
                   IF job[j].tool_failed THEN "failed_data_out" ELSE "failed_jobs"

\* C14 witness: a job submitted with stageout = all failed stage-in, the upload
\* of its log failed and it went to failed_data_out; the log of another one
\* was uploaded and it went to failed_jobs
C14_Witness ==
    \E j, k \in Jobs :
        /\ Routed(j, "failed_data_in") /\ Cfg(j).stageout = "all"
        /\ job[j].uploads = {LogKey(j)} /\ job[j].tool_failed
        /\ QueueAfter(j, "failed_data_in") = "failed_data_out"
        /\ Routed(k, "failed_data_in") /\ job[k].uploads = {LogKey(k)}
        /\ ~job[k].tool_failed /\ QueueAfter(k, "failed_data_in") = "failed_jobs"

\* C15: every job on failed_jobs carries a non-empty error-code list and a
\* non-empty error-message list.
C15_FailedJobsCarryErrors ==
    \A j \in Jobs :
        InQueue(j, "failed_jobs") =>
            job[j].pilotErrorCodes # <<>> /\ job[j].pilotErrorDiags # <<>>

\* C16: every job on finished_jobs has state finished and a non-empty
\* job.fileinfodict.
C16_FinishedJobsPopulated ==
    \A j \in Jobs :
        InQueue(j, "finished_jobs") =>
            /\ job[j].state = "finished"
            /\ job[j].fileinfodict # None
            /\ DOMAIN job[j].fileinfodict[1] # {}

\* C17: if the transfer tool ends with 0 for a file and rucio_upload.json is
\* missing, the file counts as failed and the pass returns failure with the
\* job state failed.
C17_MissingSummaryFails ==
    \A w \in StageOutWorkers, j \in Jobs :
        (PassEnded(w, j) /\ job[j].missing_summary) =>
            /\ worker[w].pc = "so_return"
            /\ worker[w].failed
            /\ ~worker[w].ret
            /\ job[j].state = "failed"

-----------------------------------------------------------------------------
(* Further claims about the communication manager (checked under SpecCM) *)

\* request c is of a two-stage operation
TwoStage(c) == call[c].op \in {"get_jobs", "get_event_ranges"}

\* the number of places request c takes in the queues Q
Places(c, Q) ==
    Cardinality({qi \in Q \X (1..MaxCalls + 1) :
                    qi[2] \in DOMAIN queues[qi[1]] /\ queues[qi[1]][qi[2]] = c})

\* C18: a two-stage request whose request-stage handler returned a response
\* with a status other than false is put on its in-flight queue exactly once
\* and taken from it exactly once (it is out of it when run() has exited); it
\* is never on a queue twice and never back on its inbound queue.
C18_InFlightExactlyOnce ==
    \A c \in Calls :
        (TwoStage(c) /\ obs[c].inflight_in > 0) =>
            /\ obs[c].inflight_in = 1
            /\ obs[c].inflight_out <= 1
            /\ Places(c, InboundQueues) = 0
            /\ Places(c, InFlightQueues) = 1 - obs[c].inflight_out
            /\ mgr.pc = "finished" => obs[c].inflight_out = 1

\* the response is an error outcome: status false, or an exception in it
ErrorOutcome(response) == response.status = "False" \/ response.exception # "None"

\* C19: a request submitted with a post_hook that ends with an error outcome
\* (handler response with status false or with an exception, or the abort on
\* cancellation) has had its post_hook invoked with that response.
C19_ErrorsReachPostHook ==
    \A c \in Calls :
        (req[c].post_hook /\ req[c].response # None /\ ErrorOutcome(req[c].response[1])) =>
            /\ obs[c].hooks >= 1
            /\ obs[c].hook_arg = req[c].response

\* C20: when the pre-check or the handler of the plugin raises while run()
\* serves a request, the request gets a response that carries a
\* communication_failure error.
C20_PluginRaiseSurfaced ==
    \A c \in Calls :
        obs[c].plugin_raised =>
            /\ req[c].response # None
            /\ req[c].response[1].exception = "CommunicationFailure"

\* call c has ended: it returned or raised
Ended(c) == call[c].pc \in {"returned", "raised"}

\* C21: a synchronous operation returns only after the response of its request
\* is set; it raises the response's exception if there is one, else returns
\* None if the status is false, else returns the content.
C21_SyncResult ==
    \A c \in Calls :
        (Ended(c) /\ obs[c].enqueued /\ ~req[c].post_hook) =>
            /\ req[c].response # None
            /\ LET response == req[c].response[1]
               IN IF response.exception # "None"
                  THEN call[c].pc = "raised" /\ call[c].ret = response.exception
                  ELSE /\ call[c].pc = "returned"
                       /\ call[c].ret = IF response.status = "False" THEN "None"
                                        ELSE response.content

\* C21 witness: one synchronous call raised the exception of the abort, another
\* one returned the content of a handler's response
C21_Witness ==
    \E c, d \in Calls :
        /\ obs[c].enqueued /\ ~req[c].post_hook /\ req[c].abort
        /\ call[c].pc = "raised" /\ call[c].ret = "CommunicationFailure"
        /\ obs[d].enqueued /\ ~req[d].post_hook /\ call[d].pc = "returned"
        /\ call[d].ret # "None"

\* C22 as claimed: get_event_ranges without a job descriptor raises
\* communication_failure and enqueues nothing, whether the manager is running
\* or stopped.
C22_NoJobAlwaysRaises ==
    \A c \in Calls :
        (call[c].nojob /\ Ended(c)) =>
            /\ call[c].pc = "raised" /\ call[c].ret = "CommunicationFailure"
            /\ ~obs[c].enqueued

\* C22 amended: get_event_ranges without a job descriptor enqueues nothing; it
\* raises communication_failure when the stop flag is not set at the call and
\* returns None when it is set.
C22_NoJobRaisesUnlessStopped ==
    \A c \in Calls :
        (call[c].nojob /\ Ended(c)) =>
            /\ ~obs[c].enqueued
            /\ req[c] = NoRequest
            /\ IF call[c].stopped
               THEN call[c].pc = "returned" /\ call[c].ret = "None"
               ELSE call[c].pc = "raised" /\ call[c].ret = "CommunicationFailure"

\* C22 witness: one call without a job raised on a running manager, another one
\* returned None on a stopped manager
C22_Witness ==
    \E c, d \in Calls :
        /\ call[c].nojob /\ call[c].pc = "raised" /\ ~call[c].stopped
        /\ call[d].nojob /\ call[d].pc = "returned" /\ call[d].stopped

\* the step is one of run() at an entry of the processor table
RunStep == AtEntry /\ mgr' # mgr

\* C27: run() calls the pre-check and the handler of request_get_jobs (of
\* request_get_events) and takes a request from that queue only while
\* processing_get_jobs (processing_get_events) is below its limit of 1.
C27_ServedOnlyBelowLimit ==
    [][(/\ RunStep
        /\ next_queue(process_type) # <<>>
        /\ \/ mgr'.pre_check # "none"
           \/ mgr'.served # 0
           \/ ~is_stop /\ QSize(queues'[process_type]) < QSize(queues[process_type]))
       => QSize(queues[next_queue(process_type)[1]]) < ProcessingLimit]_vars

\* C27 witness: run() has passed the entry request_get_events without a
\* pre-check while a request waited there behind the one in flight
C27_Witness ==
    /\ mgr.pc = "run" /\ mgr.idx = 3 /\ mgr.pre_check = "none"
    /\ ~is_stop
    /\ QSize(queues["processing_get_events"]) = ProcessingLimit
    /\ ~QEmpty(queues["request_get_events"])

\* C28: when the pre-check of an entry returns a status other than 0 the entry
\* is skipped: no request is taken, no handler called, no response set, every
\* queue and every request is as before.
C28_NotReadySkipsEntry ==
    [][(RunStep /\ mgr'.pre_check \notin {"none", "0", "raised"})
       => /\ mgr'.served = 0
          /\ mgr'.pc = "run" /\ mgr'.idx = mgr.idx + 1
          /\ mgr'.has_req = mgr.has_req
          /\ queues' = queues
          /\ req' = req
          /\ obs' = obs]_vars

\* C28 witness: the pre-check of the entry run() has just passed returned -1
\* and the request is still on the entry's queue
C28_Witness ==
    /\ mgr.pc = "run" /\ mgr.idx > 1 /\ mgr.pre_check = "-1"
    /\ ~QEmpty(queues[ProcessTypes[mgr.idx - 1]])
    /\ req[Head(queues[ProcessTypes[mgr.idx - 1]])].response = None

\* C29: a handler's response with status false is attached to the request,
\* which is then on no queue, for a two-stage entry as well.
C29_FalseIsTerminal ==
    (mgr.res # None /\ mgr.res[1].status = "False") =>
        /\ req[mgr.served].response = mgr.res
        /\ Places(mgr.served, QueueNames) = 0

\* C29 witness: the request-stage handler of a two-stage request returned
\* status false
C29_Witness ==
    /\ mgr.res # None /\ mgr.res[1].status = "False"
    /\ mgr.served # 0
    /\ TwoStage(mgr.served) /\ obs[mgr.served].inflight_in = 0
    /\ req[mgr.served].response = mgr.res

-----------------------------------------------------------------------------
(* Further claims about the data pipeline (checked under SpecPipe) *)

\* the moves the three threads make
CoreEdges ==
    { <<"data_in", "finished_data_in">>, <<"data_in", "failed_data_in">>,
      <<"data_out", "finished_data_out">>, <<"data_out", "failed_data_out">>,
      <<"failed_data_in", "failed_data_out">>, <<"failed_data_in", "failed_jobs">>,
      <<"finished_data_out", "finished_jobs">>, <<"finished_data_out", "failed_jobs">>,
      <<"failed_data_out", "failed_jobs">> }

\* the move the consumer of finished_data_in makes
PayloadEdge == <<"finished_data_in", "data_out">>

\* C30: a job moves between the pipeline queues along the edges of CoreEdges
\* only (and from finished_data_in to data_out by the payload stage); nothing
\* takes it from finished_jobs or failed_jobs, and it visits no queue twice.
C30_MovesAlongEdges ==
    \A j \in Jobs :
        LET path == job[j].path
        IN /\ \A i \in 1..(Len(path) - 1) :
                 <<path[i], path[i + 1]>> \in CoreEdges \cup {PayloadEdge}
           /\ \A i, k \in DOMAIN path : path[i] = path[k] => i = k
           /\ path # <<>> => path[1] = "data_in"
           /\ (path # <<>> /\ path[Len(path)] \in {"finished_jobs", "failed_jobs"})
                 => InQueue(j, path[Len(path)])

\* C30 witness: a job went along the recovery edge: data_in, failed_data_in,
\* failed_data_out, failed_jobs
C30_Witness ==
    \E j \in Jobs :
        job[j].path = <<"data_in", "failed_data_in", "failed_data_out", "failed_jobs">>

\* C26: after graceful_stop is set each of the three threads leaves its loop
\* and ends, also from the middle of a transfer; a stage failure is written to
\* the job and never raised out of the thread: no thread ends on an exception.
C26_NoFailureRaisedOutOfWorker == \A w \in Workers : worker[w].pc # "raised"

-----------------------------------------------------------------------------
(* Claims about set_pilot_state (checked under SpecPilotState) *)

\* C23: set_pilot_state(job, state) leaves job.state alone when it is already
\* finished or failed; in every other case job.state becomes the given state.
C23_FinishedOrFailedKept ==
    LET last == pilot.last
    IN last.job # NoJobObject =>
          get_pilot_state(pilot, last.job) =
              IF last.before \in {"finished", "failed"} THEN last.before ELSE last.state

-----------------------------------------------------------------------------
(* Claims about the supervision of a child (checked under SpecRunner) *)

Returned(fn) == runner.pc = "done" /\ runner.fn = fn

\* C24 (as stated): _call returns success if and only if the child exited
\* with code 0, in every run, the runs cancelled while the child is alive
\* included; a child that could not be spawned yields non-success.
C24_SuccessIffExitZero ==
    Returned("_call") => (runner.ret = "True" <=> process.returncode = Some(0))

\* C24 (amended): _call returns success if and only if the child exited with
\* code 0 and the call saw no cancellation (it sent no signal); a call that saw
\* the cancellation returns non-success whatever the child's exit code, and so
\* does a call whose child could not be spawned.
C24_SuccessIffExitZeroUncancelled ==
    Returned("_call") =>
        /\ runner.ret = "True" <=> (process.returncode = Some(0) /\ process.sent = <<>>)
        /\ runner.ret \in {"True", "False"}
        /\ process.status = "none" => runner.ret = "False"
        /\ runner.breaker => runner.ret = "False"

\* a call cancelled while its child was alive has returned non-success, and
\* the child exited with code 0
C24_Witness ==
    /\ Returned("_call")
    /\ runner.breaker
    /\ process.signalled
    /\ process.returncode = Some(0)
    /\ runner.ret = "False"

-----------------------------------------------------------------------------
(* Claims about the threads of the pipeline (checked under SpecPipe) *)

\* the step is one of the thread w
StepOf(w) == worker'[w] # worker[w]

\* C31: when the monitor's wait on graceful_stop reports the signal, the
\* monitor ends without a get from failed_data_in, finished_data_out or
\* failed_data_out in that pass: every queue and every job is as before.
C31_MonitorExitsBeforeReads ==
    [][(At("queue_monitoring", "loop") /\ graceful_stop /\ StepOf("queue_monitoring"))
       => /\ worker'["queue_monitoring"].pc = "done"
          /\ dataq' = dataq
          /\ job' = job]_vars

\* C31 witness: the monitor has ended and left a job on each of two queues it
\* reads
C31_Witness ==
    /\ At("queue_monitoring", "done")
    /\ ~QEmpty(dataq["failed_data_in"])
    /\ ~QEmpty(dataq["finished_data_out"])

\* C32: on a successful stage-in copytool_in puts the job on finished_data_in
\* and writes nothing to it: state, error lists and every other key are as
\* they were when 'running' was reported before the transfer.
C32_SuccessfulStageInWritesNothing ==
    [][(At("copytool_in", "stage_in") /\ worker'["copytool_in"].pc = "loop")
       => LET j == worker["copytool_in"].job
          IN /\ dataq' = [dataq EXCEPT !["finished_data_in"] = QPut(@, j)]
             /\ job[j].reported = "running"
             /\ job'[j] = [job[j] EXCEPT !.path = Append(@, "finished_data_in")]
             /\ job'[j].state = job[j].state
             /\ job'[j].pilotErrorCodes = <<>> /\ job'[j].pilotErrorDiags = <<>>
             /\ \A k \in Jobs \ {j} : job'[k] = job[k]]_vars

\* C32 witness: a job is on finished_data_in after its stage-in, without an
\* error code and not in state failed
C32_Witness ==
    \E j \in Jobs :
        /\ InQueue(j, "finished_data_in")
        /\ job[j].path = <<"data_in", "finished_data_in">>
        /\ job[j].reported = "running"
        /\ job[j].state = "unknown"
        /\ job[j].pilotErrorCodes = <<>>

-----------------------------------------------------------------------------
(* Claims about prepare_log (checked under SpecLog) *)

\* the names the tarball is to leave out
Excluded(w) == input_files(w) \cup output_files(w) \cup {<<"geomDB">>, <<"sqlite200">>}

-----------------------------------------------------------------------------
(* Further claims about the communication manager (SpecCM, SpecCMFair) *)

\* C34: a public operation called when the stop flag is set returns None at
\* once: no request is created and nothing is put on a queue of the manager.
C34_StoppedCallDoesNothing ==
    \A c \in Calls :
        (call[c].stopped /\ ~call[c].nojob) =>
            /\ call[c].pc = "returned"
            /\ call[c].ret = "None"
            /\ req[c] = NoRequest
            /\ ~obs[c].enqueued
            /\ Places(c, QueueNames) = 0

\* C34 witness: update_events and get_jobs have both been called with the
\* stop flag set
C34_Witness ==
    \E c, d \in Calls :
        /\ call[c].stopped /\ call[c].op = "update_events" /\ call[c].pc = "returned"
        /\ call[d].stopped /\ call[d].op = "get_jobs" /\ call[d].pc = "returned"

\* C35: the stop flag is never cleared, and a step of run() made with the
\* flag set calls no pre-check and no handler: it takes the drain branch, in
\* which a request only gets the abort response.
C35_StopIsFinal ==
    [][/\ stop_event => stop_event'
       /\ (stop_event /\ mgr' # mgr) =>
             /\ mgr'.pre_check = "none" /\ mgr'.served = 0 /\ mgr'.res = None
             /\ mgr'.pc # "crashed"
       /\ stop_event =>
             \A c \in Calls :
                /\ req'[c] # req[c] =>
                      /\ req'[c] = [req[c] EXCEPT !.abort = TRUE,
                                                  !.response = <<AbortResponse>>]
                      /\ Places(c, QueueNames) = 1
                /\ obs'[c].hooks = obs[c].hooks
                /\ obs'[c].inflight_in = obs[c].inflight_in]_vars

\* C35 witness: run() has aborted a request at one entry and is at a later
\* entry whose queue holds another
C35_Witness ==
    /\ stop_event
    /\ AtEntry /\ mgr.idx > 1
    /\ ~QEmpty(queues[process_type])
    /\ \E c \in Calls : req[c].abort

\* C36: after stop() run() ends, if the plugin's calls return: the pass under
\* way may be one in which work was done, no work is done after the flag is
\* set, and the pass that began with the flag set is the last.
C36_TerminatesAfterStop ==
    /\ [][/\ (stop_event /\ ~mgr.has_req) => ~mgr'.has_req
          /\ (stop_event /\ mgr.drain_pass /\ mgr' # mgr) =>
                /\ ~mgr'.has_req
                /\ mgr.idx = NumEntries + 1 => mgr'.pc = "finished"]_vars
    /\ (stop_event /\ mgr.pc = "run") ~> (mgr.pc = "finished")

\* C36 witness: run() has ended after a pass that began with the flag set,
\* the pass before it having done work
C36_Witness ==
    /\ mgr.pc = "finished"
    /\ mgr.drain_pass
    /\ \E c \in Calls : req[c].response # None /\ ~req[c].abort

\* C37: the post_hook of a request is invoked at most once; for a two-stage
\* request never at the request stage; and when it is invoked the response
\* of the request is the response given to the hook.
C37_PostHookOnceWithResponse ==
    \A c \in Calls :
        /\ obs[c].hooks <= 1
        /\ obs[c].hooks = 1 =>
              /\ req[c].post_hook
              /\ req[c].response # None
              /\ obs[c].hook_arg = req[c].response
              /\ Places(c, QueueNames) = 0
              /\ TwoStage(c) => obs[c].inflight_in = 1 /\ obs[c].inflight_out = 1

\* C37 witness: the post_hook of a two-stage request was invoked
C37_Witness ==
    \E c \in Calls :
        /\ TwoStage(c)
        /\ obs[c].hooks = 1
        /\ obs[c].hook_arg = req[c].response

-----------------------------------------------------------------------------
(* Further claims about the routing and the stage-out (checked under SpecPipe) *)

\* C38: a job that was put on failed_data_in is never put on finished_jobs,
\* whatever the result of its log-only stage-out: it ends on failed_jobs.
C38_FailedStageInNeverFinished ==
    \A j \in Jobs :
        Visited(j, "failed_data_in") =>
            /\ ~Visited(j, "finished_jobs")
            /\ ~InQueue(j, "finished_jobs")
            /\ job[j].path[Len(job[j].path)] \in
                  {"failed_data_in", "failed_data_out", "failed_jobs"}

\* C38 witness: the log-only stage-out of a job from failed_data_in returned
\* True and the job is on failed_jobs
C38_Witness ==
    \E j \in Jobs :
        /\ job[j].path = <<"data_in", "failed_data_in", "failed_jobs">>
        /\ job[j].passes = 1
        /\ InQueue(j, "failed_jobs")

\* C39: when a stage-out pass fails the job's fileinfodict is left as it was
\* (no pass has written it): the metadata of the transfers of the pass that
\* succeeded is not stored on the job.
C39_FailedPassStoresNoFileInfo ==
    /\ \A w \in StageOutWorkers :
          (worker[w].job # 0 /\ worker[w].failed) =>
              /\ worker[w].pc \in {"so_add_error_code", "so_failed", "so_return"}
              /\ job[worker[w].job].fileinfodict = None
              /\ worker[w].pc = "so_return" => ~worker[w].ret
    /\ \A j \in Jobs : Visited(j, "failed_data_out") => job[j].fileinfodict = None

\* C39 witness: a pass has failed after a transfer of it succeeded
C39_Witness ==
    \E w \in StageOutWorkers :
        /\ At(w, "so_return")
        /\ worker[w].failed
        /\ worker[w].fileinfodict # <<>>
        /\ job[worker[w].job].fileinfodict = None

====
